---------------------------- MODULE Spec2Model ----------------------------
(***************************************************************************)
(* The authentication core of backend/src: AuthService over the four       *)
(* tables users, verification_tokens, password_reset_tokens and sessions.  *)
(*                                                                         *)
(* Every request runs AuthService on its own SQLAlchemy session            *)
(* (lib/database.py get_db).  A call is modelled as the sequence of its    *)
(* database interactions: a query loads rows into the call's identity map  *)
(* (a private snapshot), the Python code between two interactions works on *)
(* the snapshot, and commit() writes the columns whose value differs from  *)
(* the loaded one (the ORM's UPDATE ... SET <changed columns> WHERE id =   *)
(* ...) and makes all writes of the transaction visible at once.  Queries  *)
(* take no lock (SQLite through pysqlite, PostgreSQL at READ COMMITTED).   *)
(*                                                                         *)
(* Spec     : calls run one after the other (no overlap); the clock moves  *)
(*            between calls.                                               *)
(* ConcSpec : two calls overlap, their database interactions interleaved   *)
(*            in any order, the clock moving at any point.                 *)
(* TwoSpec  : calls run one after the other on two verified accounts.      *)
(* RegSpec  : two registration calls (register_user, resend_verification,  *)
(*            verify_email) overlap, from the empty store.                 *)
(* JwtSpec  : the token codec of services/jwt_service.py: tokens are       *)
(*            issued, forged and verified while the clock moves.           *)
(* PolicySpec : register_user and reset_password over passwords built from *)
(*            every combination of character classes and lengths 7 to 9.   *)
(* ResetSpec : calls run one after the other on one verified account that  *)
(*            holds two unused reset tokens.                               *)
(* CrossSpec : two callers, one per account, whose calls overlap.          *)
(*                                                                         *)
(* Time is counted in abstract ticks; the settings of config.py that are   *)
(* durations are given in ticks.  Columns that no code reads and no        *)
(* property mentions (id of the token rows, created_at, updated_at,        *)
(* users.is_active) are left out.                                          *)
(***************************************************************************)
EXTENDS Integers, Sequences, FiniteSets, TLC

\* ------------------------------------------------------------------ bounds
\* The clock runs from 0 to MaxTime.
MaxTime == 2
\* The clock runs from 0 to ConcMaxTime while calls overlap.
ConcMaxTime == 1
\* Rows the password_reset_tokens table may hold.
MaxResetTokens == 1
\* Rows the sessions table may hold.
MaxSessions == 2
\* The clock runs from 0 to TwoMaxTime where two accounts exist.
TwoMaxTime == 1
\* Rows the sessions table may hold where two accounts exist.
TwoMaxSessions == 3
\* The clock runs from 0 to RegMaxTime while registrations overlap.
RegMaxTime == 1
\* Rows the verification_tokens table may hold while registrations overlap.
MaxVerificationTokens == 2
\* The clock runs from 0 to JwtMaxTime while tokens are issued and verified.
JwtMaxTime == 3
\* The clock runs from 0 to ResetMaxTime where an account has two reset
\* tokens.
ResetMaxTime == 2
\* The clock runs from 0 to CrossMaxTime while the calls of two accounts
\* overlap.
CrossMaxTime == 1
\* settings.MAX_LOGIN_ATTEMPTS (config.py, from the environment, default 5).
MAX_LOGIN_ATTEMPTS == 3

\* The settings of config.py that are durations, from the environment: one
\* tick each.
LOCKOUT_DURATION_MINUTES == 1
VERIFICATION_TOKEN_EXPIRY_HOURS == 1
RESET_TOKEN_EXPIRY_HOURS == 1
SESSION_EXPIRY_HOURS == 1

\* ------------------------------------------------------------------- data
\* NULL of a nullable DateTime column.
Null == -1

\* Email addresses as the caller sends them, and str.lower() on them.
RawEmails == {"a@x.io", "A@x.io", "b@x.io"}
\* The addresses of one account.
OneAccount == {"a@x.io", "A@x.io"}

lower(e) == IF e = "A@x.io" THEN "a@x.io" ELSE e

\* Passwords are sequences of characters.
Upper == {"S", "N", "P"}
Lowers == {"a", "c", "e", "r", "s", "u", "w"}
Digits == {"1", "2"}
Specials == {"!", "#"}

SecurePass == <<"S", "e", "c", "u", "r", "e", "1", "!">>
NewPass == <<"N", "e", "w", "P", "a", "s", "s", "2", "#">>
weakpass == <<"p", "a", "s", "s">>

\* The passwords sent to register, to login and to reset_password.
RegisterPasswords == {SecurePass, weakpass}
LoginPasswords == {SecurePass, NewPass}
ResetPasswords == {NewPass, weakpass}

Has(p, class) == \E i \in 1..Len(p) : p[i] \in class

\* validate_strength with the length test of line 63 off by one.
validate_strength_seven(p) ==
    /\ ~(Len(p) < 7)
    /\ Has(p, Upper)
    /\ Has(p, Lowers)
    /\ Has(p, Digits)
    /\ Has(p, Specials)

\* PasswordService.validate_strength
validate_strength(p) ==
    /\ ~(Len(p) < 8)
    /\ Has(p, Upper)
    /\ Has(p, Lowers)
    /\ Has(p, Digits)
    /\ Has(p, Specials)

\* PasswordService.hash_password: argon2 with a fresh random salt; the salt
\* is the number of hashes computed so far, so no two hashes are equal.
hash_password(p, salt) == [pw |-> p, salt |-> salt]

\* PasswordService.verify_password
verify_password(p, h) == h.pw = p

\* JWTService.generate_session_token: HS256 over the payload with a fixed
\* key is a function of the payload, so the token is modelled by the payload.
generate_session_token(user_id, email, t) ==
    [user_id |-> user_id, email |-> email, iat |-> t, exp |-> t + SESSION_EXPIRY_HOURS]

\* settings.SECRET_KEY and a key that is not the service's.
SECRET_KEY == "dev-secret-key-change-in-production"
OtherKey == "another-key"

\* jwt.encode: the payload with its HS256 signature, which is a function of
\* the payload and the key; datetime claims are stored as timestamps.
jwt_encode(payload, key) == [payload |-> payload, key |-> key]

\* JWTService.generate_session_token with expires_delta given.
generate_session_token_delta(user_id, email, t, expires_delta) ==
    jwt_encode([user_id |-> user_id, email |-> email, iat |-> t,
                exp |-> t + expires_delta], SECRET_KEY)

\* What verify_token returns for a token it rejects, and a caller's empty hand.
None == [user_id |-> 0, email |-> "", iat |-> Null, exp |-> Null]
NoToken == jwt_encode(None, "")

\* JWTService.verify_token at time t: jwt.decode checks the signature with the
\* service's key and raises ExpiredSignatureError when exp < now; every
\* JWTError is caught and answered None.
verify_token(token, t) ==
    IF token.key # SECRET_KEY THEN None
    ELSE IF token.payload.exp < t THEN None
    ELSE token.payload

\* ------------------------------------------------------------------ state
VARIABLES
    now,       \* datetime.utcnow()
    users,     \* table users, a row's id is its index
    vtokens,   \* table verification_tokens, a row's token string is its index
    rtokens,   \* table password_reset_tokens, a row's token string is its index
    sessions,  \* table sessions
    nhash,     \* hashes computed so far (the next salt)
    calls      \* the calls in flight, per slot

store == <<users, vtokens, rtokens, sessions>>
vars == <<now, users, vtokens, rtokens, sessions, nhash, calls>>

Calls == {1, 2}

\* User.__init__
User(email, password_hash) ==
    [email |-> lower(email), password_hash |-> password_hash,
     email_verified |-> FALSE, is_locked |-> FALSE, locked_until |-> Null,
     failed_login_attempts |-> 0, last_failed_login |-> Null,
     last_login_at |-> Null]

\* VerificationToken.__init__
VerificationToken(user_id, t) ==
    [user_id |-> user_id, expires_at |-> t + VERIFICATION_TOKEN_EXPIRY_HOURS,
     is_used |-> FALSE, used_at |-> Null]

\* PasswordResetToken.__init__
PasswordResetToken(user_id, t) ==
    [user_id |-> user_id, expires_at |-> t + RESET_TOKEN_EXPIRY_HOURS,
     is_used |-> FALSE, used_at |-> Null]

\* Session.__init__ without the default of lines 45-48: the session expires
\* when it is created.
Session_expires_at_once(user_id, token, t, h) ==
    [user_id |-> user_id, token |-> token, is_active |-> TRUE,
     expires_at |-> t, granted_on |-> h]

\* Session.__init__; granted_on is a history field: the password hash the
\* login that created the session checked the password against.
Session(user_id, token, t, h) ==
    [user_id |-> user_id, token |-> token, is_active |-> TRUE,
     expires_at |-> t + SESSION_EXPIRY_HOURS, granted_on |-> h]

\* is_expired with one tick of grace after expires_at.
is_expired_late(tok, t) == t > tok.expires_at + 1

\* VerificationToken.is_expired, PasswordResetToken.is_expired
is_expired(tok, t) == t > tok.expires_at

\* db.query(User).filter(User.email == email).first(): the row's id, 0 if none
FindUser(email) ==
    IF \E i \in 1..Len(users) : users[i].email = email
    THEN CHOOSE i \in 1..Len(users) : users[i].email = email
    ELSE 0

\* A flush that writes every column of the loaded row, changed or not.
Flush_every_column(row, loaded, changed) == changed

\* The UPDATE a flush emits for a loaded row: the columns whose value was
\* changed since the load are written, the others keep the stored value.
Flush(row, loaded, changed) ==
    [f \in DOMAIN row |-> IF changed[f] # loaded[f] THEN changed[f] ELSE row[f]]

\* ------------------------------------------------------------------ calls
NoRow == [email |-> "", password_hash |-> hash_password(<<>>, 0),
          email_verified |-> FALSE, is_locked |-> FALSE, locked_until |-> Null,
          failed_login_attempts |-> 0, last_failed_login |-> Null,
          last_login_at |-> Null]

\* A slot: the operation, its position, its arguments (email, pw, tok), the
\* rows it loaded (uid and u: the user row as loaded, w: the same row with the
\* call's changes; at: the value of a utcnow() kept for the commit; bulk: the
\* rows a bulk UPDATE matched) and its result.  History fields serve the
\* properties: h, the password hash the call computed or checked against;
\* pre, the sessions of the account that existed when the call started; and
\* lazy, whether the call cleared an elapsed lock.
Idle ==
    [op |-> "none", pc |-> "idle", email |-> "", pw |-> <<>>, tok |-> 0,
     uid |-> 0, u |-> NoRow, w |-> NoRow, at |-> Null, bulk |-> {},
     h |-> hash_password(<<>>, 0), pre |-> {}, lazy |-> FALSE, res |-> "",
     jwt |-> NoToken, claims |-> None]

Call(op, email, pw, tok) ==
    [Idle EXCEPT !.op = op, !.email = email, !.pw = pw, !.tok = tok]

\* The call returns (or raises) r: get_db closes the session, which drops
\* its rows and rolls back what it did not commit.  The slot keeps what the
\* caller knows (the operation, its arguments, the result) and the history
\* fields until the next call starts in it.
Done(k, r) ==
    [Idle EXCEPT !.op = k.op, !.pc = "done", !.email = k.email, !.pw = k.pw,
                 !.tok = k.tok, !.uid = k.uid, !.h = k.h, !.pre = k.pre,
                 !.lazy = k.lazy, !.res = r]

Put(c, k) == calls' = [calls EXCEPT ![c] = k]

Free(c) == calls[c].pc \in {"idle", "done"}

Init ==
    /\ now = 0
    /\ users = <<>>
    /\ vtokens = <<>>
    /\ rtokens = <<>>
    /\ sessions = <<>>
    /\ nhash = 1
    /\ calls = [c \in Calls |-> Idle]

\* The clock advances, up to limit.
Tick(limit) ==
    /\ now < limit
    /\ now' = now + 1
    /\ UNCHANGED <<users, vtokens, rtokens, sessions, nhash, calls>>

\* --------------------------------------------------------- register_user
\* Lines 63-92 with the strength check of line 77 before the duplicate check.
register_user_query_strength_first(c, raw, pw) ==
    /\ Free(c)
    /\ LET email == lower(raw)
           k == Call("register", email, pw, 0)
       IN  IF ~validate_strength(pw)
           THEN Put(c, Done(k, "WeakPassword")) /\ UNCHANGED nhash
           ELSE IF FindUser(email) # 0
           THEN Put(c, Done(k, "DuplicateEmail")) /\ UNCHANGED nhash
           ELSE /\ Put(c, [k EXCEPT !.pc = "commit",
                                    !.h = hash_password(pw, nhash),
                                    !.w = User(email, hash_password(pw, nhash))])
                /\ nhash' = nhash + 1
    /\ UNCHANGED <<now, users, vtokens, rtokens, sessions>>

\* Lines 63-92: the duplicate check, the strength check, the hash, User(...).
register_user_query(c, raw, pw) ==
    /\ Free(c)
    /\ LET email == lower(raw)
           k == Call("register", email, pw, 0)
       IN  IF FindUser(email) # 0
           THEN Put(c, Done(k, "DuplicateEmail")) /\ UNCHANGED nhash
           ELSE IF ~validate_strength(pw)
           THEN Put(c, Done(k, "WeakPassword")) /\ UNCHANGED nhash
           ELSE /\ Put(c, [k EXCEPT !.pc = "commit",
                                    !.h = hash_password(pw, nhash),
                                    !.w = User(email, hash_password(pw, nhash))])
                /\ nhash' = nhash + 1
    /\ UNCHANGED <<now, users, vtokens, rtokens, sessions>>

\* Lines 93-104 on a users table whose email column is not UNIQUE.
register_user_commit_no_unique(c) ==
    LET k == calls[c] IN
    /\ k.op = "register" /\ k.pc = "commit"
    /\ users' = Append(users, k.w)
    /\ vtokens' = Append(vtokens, VerificationToken(Len(users) + 1, now))
    /\ Put(c, [k EXCEPT !.pc = "send", !.uid = Len(users) + 1])
    /\ UNCHANGED <<now, rtokens, sessions, nhash>>

\* Lines 93-104 with a commit after the flush of line 94: the user becomes
\* visible without its token.
register_user_commit_user_only(c) ==
    LET k == calls[c] IN
    /\ k.op = "register" /\ k.pc = "commit"
    /\ IF FindUser(k.email) # 0
       THEN /\ Put(c, Done(k, "IntegrityError"))
            /\ UNCHANGED users
       ELSE /\ users' = Append(users, k.w)
            /\ Put(c, [k EXCEPT !.pc = "send", !.uid = Len(users) + 1])
    /\ UNCHANGED <<now, vtokens, rtokens, sessions, nhash>>

\* Lines 93-104: the INSERT of the user, VerificationToken(...), the commit.
\* users.email is UNIQUE: the INSERT of an email another transaction has
\* committed since the query raises IntegrityError.
register_user_commit(c) ==
    LET k == calls[c] IN
    /\ k.op = "register" /\ k.pc = "commit"
    /\ IF FindUser(k.email) # 0
       THEN /\ Put(c, Done(k, "IntegrityError"))
            /\ UNCHANGED <<users, vtokens>>
       ELSE /\ users' = Append(users, k.w)
            /\ vtokens' = Append(vtokens, VerificationToken(Len(users) + 1, now))
            /\ Put(c, [k EXCEPT !.pc = "send", !.uid = Len(users) + 1])
    /\ UNCHANGED <<now, rtokens, sessions, nhash>>

\* Lines 106-119: await send_verification_email, which raises when the SMTP
\* server refuses (EmailService.send_email re-raises); then the audit record
\* and the return.
register_user_send(c) ==
    LET k == calls[c] IN
    /\ k.op = "register" /\ k.pc = "send"
    /\ \E sent \in BOOLEAN :
          Put(c, Done(k, IF sent THEN "Success" ELSE "SendFailed"))
    /\ UNCHANGED <<now, users, vtokens, rtokens, sessions, nhash>>

\* ---------------------------------------------------------- verify_email
\* Lines 136-181 with the expiry check of line 162 before the used check of
\* line 151.
verify_email_query_expiry_first(c, token) ==
    /\ Free(c)
    /\ LET k == Call("verify", "", <<>>, token)
       IN  IF token \notin DOMAIN vtokens
           THEN Put(c, Done(k, "InvalidToken"))
           ELSE IF is_expired(vtokens[token], now)
           THEN Put(c, Done(k, "TokenExpired"))
           ELSE IF vtokens[token].is_used
           THEN Put(c, Done(k, "TokenAlreadyUsed"))
           ELSE LET uid == vtokens[token].user_id
                IN  Put(c, [k EXCEPT !.pc = "commit", !.uid = uid, !.at = now,
                                     !.u = users[uid],
                                     !.w = [users[uid] EXCEPT !.email_verified = TRUE]])
    /\ UNCHANGED <<now, users, vtokens, rtokens, sessions, nhash>>

\* Lines 136-181: the token query, the checks existence / used / expired, the
\* changes to the token and to the user in the identity map.
verify_email_query(c, token) ==
    /\ Free(c)
    /\ LET k == Call("verify", "", <<>>, token)
       IN  IF token \notin DOMAIN vtokens
           THEN Put(c, Done(k, "InvalidToken"))
           ELSE IF vtokens[token].is_used
           THEN Put(c, Done(k, "TokenAlreadyUsed"))
           ELSE IF is_expired(vtokens[token], now)
           THEN Put(c, Done(k, "TokenExpired"))
           ELSE LET uid == vtokens[token].user_id
                IN  Put(c, [k EXCEPT !.pc = "commit", !.uid = uid, !.at = now,
                                     !.u = users[uid],
                                     !.w = [users[uid] EXCEPT !.email_verified = TRUE]])
    /\ UNCHANGED <<now, users, vtokens, rtokens, sessions, nhash>>

\* Line 182 without the write of line 173: the token stays unused.
verify_email_commit_keeps_token(c) ==
    LET k == calls[c] IN
    /\ k.op = "verify" /\ k.pc = "commit"
    /\ users' = [users EXCEPT ![k.uid] = Flush(@, k.u, k.w)]
    /\ Put(c, Done(k, "Success"))
    /\ UNCHANGED <<now, vtokens, rtokens, sessions, nhash>>

\* Line 182 without the write of line 181: the token is used, the account is
\* not verified.
verify_email_commit_token_only(c) ==
    LET k == calls[c] IN
    /\ k.op = "verify" /\ k.pc = "commit"
    /\ vtokens' = [vtokens EXCEPT ![k.tok] =
                      [@ EXCEPT !.is_used = TRUE, !.used_at = k.at]]
    /\ Put(c, Done(k, "Success"))
    /\ UNCHANGED <<now, users, rtokens, sessions, nhash>>

\* Line 182 with the write of line 181 applied to every account.
verify_email_commit_every_account(c) ==
    LET k == calls[c] IN
    /\ k.op = "verify" /\ k.pc = "commit"
    /\ vtokens' = [vtokens EXCEPT ![k.tok] =
                      [@ EXCEPT !.is_used = TRUE, !.used_at = k.at]]
    /\ users' = [i \in DOMAIN users |-> [users[i] EXCEPT !.email_verified = TRUE]]
    /\ Put(c, Done(k, "Success"))
    /\ UNCHANGED <<now, rtokens, sessions, nhash>>

\* Line 182: the commit writes is_used, used_at and email_verified.
verify_email_commit(c) ==
    LET k == calls[c] IN
    /\ k.op = "verify" /\ k.pc = "commit"
    /\ vtokens' = [vtokens EXCEPT ![k.tok] =
                      [@ EXCEPT !.is_used = TRUE, !.used_at = k.at]]
    /\ users' = [users EXCEPT ![k.uid] = Flush(@, k.u, k.w)]
    /\ Put(c, Done(k, "Success"))
    /\ UNCHANGED <<now, rtokens, sessions, nhash>>

\* The audit event a register_user call has emitted when it ends with result
\* r: log_registration_attempt is called on the duplicate path (lines 69-73),
\* on the weak-password path (78-82) and after the await of the send
\* (114-117); the exceptions of the INSERT (line 94) and of the send (line
\* 107) leave the function before any call of the logger.
NoEvent == [event |-> "", reason |-> ""]

log_registration_attempt(r) ==
    CASE r = "DuplicateEmail" ->
            [event |-> "registration_failure", reason |-> "Email already registered"]
      [] r = "WeakPassword" ->
            [event |-> "registration_failure", reason |-> "Weak password"]
      [] r = "Success" ->
            [event |-> "registration_success", reason |-> ""]
      [] OTHER -> NoEvent

\* --------------------------------------------------- resend_verification
\* The message literals of lines 216, 220 and 238, and the one the route
\* (api/routes/auth.py 171-175) answers when the service raises.
MessageResendNotFound ==
    "If the email exists and is not verified, a new verification email has been sent."
MessageAlreadyVerified == "Email already verified"
MessageResendSent == "Verification email sent"
MessageResendError ==
    "If the email exists and is not verified, a new verification email has been sent."

ResendsInFlight ==
    Cardinality({c \in Calls : calls[c].op = "resend" /\ ~Free(c)})

\* The verification_tokens table has room for one more resend under the limit.
TokenRoom(limit) == Len(vtokens) + ResendsInFlight < limit

\* Lines 210-227: the user query, the checks not found / already verified,
\* VerificationToken(...).
resend_verification_query(c, raw) ==
    /\ Free(c)
    /\ LET email == lower(raw)
           k == Call("resend", email, <<>>, 0)
           uid == FindUser(email)
       IN  IF uid = 0
           THEN Put(c, Done(k, MessageResendNotFound))
           ELSE IF users[uid].email_verified
           THEN Put(c, Done([k EXCEPT !.uid = uid], MessageAlreadyVerified))
           ELSE Put(c, [k EXCEPT !.pc = "commit", !.uid = uid, !.at = now])
    /\ UNCHANGED <<now, users, vtokens, rtokens, sessions, nhash>>

\* Lines 228-229 with a revocation before the commit: the earlier unused
\* tokens of the account are marked used.
resend_verification_commit_revokes(c) ==
    LET k == calls[c] IN
    /\ k.op = "resend" /\ k.pc = "commit"
    /\ vtokens' = Append([i \in DOMAIN vtokens |->
                             IF vtokens[i].user_id = k.uid /\ ~vtokens[i].is_used
                             THEN [vtokens[i] EXCEPT !.is_used = TRUE, !.used_at = k.at]
                             ELSE vtokens[i]],
                         VerificationToken(k.uid, k.at))
    /\ Put(c, [k EXCEPT !.pc = "send", !.tok = Len(vtokens) + 1])
    /\ UNCHANGED <<now, users, rtokens, sessions, nhash>>

\* Lines 228-229: the commit inserts the token.
resend_verification_commit(c) ==
    LET k == calls[c] IN
    /\ k.op = "resend" /\ k.pc = "commit"
    /\ vtokens' = Append(vtokens, VerificationToken(k.uid, k.at))
    /\ Put(c, [k EXCEPT !.pc = "send", !.tok = Len(vtokens) + 1])
    /\ UNCHANGED <<now, users, rtokens, sessions, nhash>>

\* Lines 231-238: await send_verification_email; when it raises, the route
\* catches the exception and answers its own message.
resend_verification_send(c) ==
    LET k == calls[c] IN
    /\ k.op = "resend" /\ k.pc = "send"
    /\ \E sent \in BOOLEAN :
          Put(c, Done(k, IF sent THEN MessageResendSent ELSE MessageResendError))
    /\ UNCHANGED <<now, users, vtokens, rtokens, sessions, nhash>>

\* ----------------------------------------------------------------- login
\* Logins in flight: each may still insert a session.
LoginsInFlight == Cardinality({c \in Calls : calls[c].op = "login" /\ ~Free(c)})

\* The sessions table has room for one more login under the limit.
Room(limit) == Len(sessions) + LoginsInFlight < limit

\* Line 285 as a lock that ends one tick late.
lock_in_force_inclusive(u, t) == u.locked_until # Null /\ t <= u.locked_until

\* Line 285: the lock still holds at time t.
lock_in_force(u, t) == u.locked_until # Null /\ t < u.locked_until

\* Lines 257-298 without the check of lines 271-280: an unverified account
\* goes on to the password check.
login_query_skips_verified(c, raw, pw) ==
    /\ Free(c)
    /\ LET email == lower(raw)
           k == Call("login", email, pw, 0)
           uid == FindUser(email)
           u == users[uid]
       IN  IF uid = 0
           THEN Put(c, Done(k, "InvalidCredentials"))
           ELSE IF u.is_locked
           THEN IF lock_in_force(u, now)
                THEN Put(c, Done([k EXCEPT !.uid = uid], "AccountLocked"))
                ELSE Put(c, [k EXCEPT !.pc = "unlock", !.uid = uid, !.u = u,
                                      !.lazy = TRUE,
                                      !.w = [u EXCEPT !.is_locked = FALSE,
                                                      !.locked_until = Null,
                                                      !.failed_login_attempts = 0]])
           ELSE Put(c, [k EXCEPT !.pc = "verify", !.uid = uid, !.u = u, !.w = u])
    /\ UNCHANGED <<now, users, vtokens, rtokens, sessions, nhash>>

\* Lines 257-298 with a message of its own for an email without an account.
login_query_reveals_missing(c, raw, pw) ==
    /\ Free(c)
    /\ LET email == lower(raw)
           k == Call("login", email, pw, 0)
           uid == FindUser(email)
           u == users[uid]
       IN  IF uid = 0
           THEN Put(c, Done(k, "UserNotFound"))
           ELSE IF ~u.email_verified
           THEN Put(c, Done([k EXCEPT !.uid = uid], "EmailNotVerified"))
           ELSE IF u.is_locked
           THEN IF lock_in_force(u, now)
                THEN Put(c, Done([k EXCEPT !.uid = uid], "AccountLocked"))
                ELSE Put(c, [k EXCEPT !.pc = "unlock", !.uid = uid, !.u = u,
                                      !.lazy = TRUE,
                                      !.w = [u EXCEPT !.is_locked = FALSE,
                                                      !.locked_until = Null,
                                                      !.failed_login_attempts = 0]])
           ELSE Put(c, [k EXCEPT !.pc = "verify", !.uid = uid, !.u = u, !.w = u])
    /\ UNCHANGED <<now, users, vtokens, rtokens, sessions, nhash>>

\* Lines 257-298 with the attempt on a locked account counted before the
\* refusal of line 293.
login_query_counts_locked(c, raw, pw) ==
    /\ Free(c)
    /\ LET email == lower(raw)
           k == Call("login", email, pw, 0)
           uid == FindUser(email)
           u == users[uid]
       IN  IF uid = 0
           THEN Put(c, Done(k, "InvalidCredentials")) /\ UNCHANGED users
           ELSE IF ~u.email_verified
           THEN Put(c, Done([k EXCEPT !.uid = uid], "EmailNotVerified")) /\ UNCHANGED users
           ELSE IF u.is_locked
           THEN IF lock_in_force(u, now)
                THEN /\ Put(c, Done([k EXCEPT !.uid = uid], "AccountLocked"))
                     /\ users' = [users EXCEPT ![uid].failed_login_attempts = @ + 1,
                                               ![uid].last_failed_login = now]
                ELSE /\ Put(c, [k EXCEPT !.pc = "unlock", !.uid = uid, !.u = u,
                                         !.lazy = TRUE,
                                         !.w = [u EXCEPT !.is_locked = FALSE,
                                                         !.locked_until = Null,
                                                         !.failed_login_attempts = 0]])
                     /\ UNCHANGED users
           ELSE Put(c, [k EXCEPT !.pc = "verify", !.uid = uid, !.u = u, !.w = u])
                /\ UNCHANGED users
    /\ UNCHANGED <<now, vtokens, rtokens, sessions, nhash>>

\* Lines 257-298: the user query and the checks not found / unverified /
\* locked; an elapsed lock is cleared in the identity map.
login_query(c, raw, pw) ==
    /\ Free(c)
    /\ LET email == lower(raw)
           k == Call("login", email, pw, 0)
           uid == FindUser(email)
           u == users[uid]
       IN  IF uid = 0
           THEN Put(c, Done(k, "InvalidCredentials"))
           ELSE IF ~u.email_verified
           THEN Put(c, Done([k EXCEPT !.uid = uid], "EmailNotVerified"))
           ELSE IF u.is_locked
           THEN IF lock_in_force(u, now)
                THEN Put(c, Done([k EXCEPT !.uid = uid], "AccountLocked"))
                ELSE Put(c, [k EXCEPT !.pc = "unlock", !.uid = uid, !.u = u,
                                      !.lazy = TRUE,
                                      !.w = [u EXCEPT !.is_locked = FALSE,
                                                      !.locked_until = Null,
                                                      !.failed_login_attempts = 0]])
           ELSE Put(c, [k EXCEPT !.pc = "verify", !.uid = uid, !.u = u, !.w = u])
    /\ UNCHANGED <<now, users, vtokens, rtokens, sessions, nhash>>

\* Line 299 without the assignment of line 297: the unlock keeps locked_until.
login_unlock_keeps_until(c) ==
    LET k == calls[c] IN
    /\ k.op = "login" /\ k.pc = "unlock"
    /\ users' = [users EXCEPT ![k.uid] =
                    Flush(@, k.u, [k.w EXCEPT !.locked_until = k.u.locked_until])]
    /\ Put(c, [k EXCEPT !.pc = "reload", !.u = NoRow, !.w = NoRow])
    /\ UNCHANGED <<now, vtokens, rtokens, sessions, nhash>>

\* Line 299 without the assignment of line 298: the unlock keeps the counter.
login_unlock_keeps_counter(c) ==
    LET k == calls[c] IN
    /\ k.op = "login" /\ k.pc = "unlock"
    /\ users' = [users EXCEPT ![k.uid] =
                    Flush(@, k.u, [k.w EXCEPT !.failed_login_attempts =
                                                  k.u.failed_login_attempts])]
    /\ Put(c, [k EXCEPT !.pc = "reload", !.u = NoRow, !.w = NoRow])
    /\ UNCHANGED <<now, vtokens, rtokens, sessions, nhash>>

\* Line 299: the commit of the unlock.  A commit expires the loaded rows.
login_unlock(c) ==
    LET k == calls[c] IN
    /\ k.op = "login" /\ k.pc = "unlock"
    /\ users' = [users EXCEPT ![k.uid] = Flush(@, k.u, k.w)]
    /\ Put(c, [k EXCEPT !.pc = "reload", !.u = NoRow, !.w = NoRow])
    /\ UNCHANGED <<now, vtokens, rtokens, sessions, nhash>>

\* Line 302 after an unlock: reading user.password_hash loads the expired row
\* again.
login_reload(c) ==
    LET k == calls[c] IN
    /\ k.op = "login" /\ k.pc = "reload"
    /\ Put(c, [k EXCEPT !.pc = "verify", !.u = users[k.uid], !.w = users[k.uid]])
    /\ UNCHANGED <<now, users, vtokens, rtokens, sessions, nhash>>

\* Lines 303-313 with the threshold of line 308 missed by one.
login_failed_late_lock(k, t) ==
    LET w1 == [k.w EXCEPT !.failed_login_attempts = @ + 1,
                          !.last_failed_login = t]
    IN  IF w1.failed_login_attempts > MAX_LOGIN_ATTEMPTS
        THEN [w1 EXCEPT !.is_locked = TRUE,
                        !.locked_until = t + LOCKOUT_DURATION_MINUTES]
        ELSE w1

\* Lines 303-313 and 323: a wrong password is counted and may lock the account.
login_failed(k, t) ==
    LET w1 == [k.w EXCEPT !.failed_login_attempts = @ + 1,
                          !.last_failed_login = t]
    IN  IF w1.failed_login_attempts >= MAX_LOGIN_ATTEMPTS
        THEN [w1 EXCEPT !.is_locked = TRUE,
                        !.locked_until = t + LOCKOUT_DURATION_MINUTES]
        ELSE w1

\* Lines 334-336 without the assignment of line 335: the counter is kept.
login_succeeded_keeps_counter(k, t) == k.w

\* Lines 334-336: the counter is reset; last_login is no column of users
\* (the column is last_login_at), so the assignment of line 336 is not stored.
login_succeeded(k, t) ==
    [k.w EXCEPT !.failed_login_attempts = 0]

\* Lines 301-369 with the session of lines 339-349 created before the raise
\* of line 332 as well: a counted failure commits a session.
login_verify_grants_on_failure(c) ==
    LET k == calls[c]
        h == k.w.password_hash
        token == generate_session_token(k.uid, k.w.email, now)
    IN
    /\ k.op = "login" /\ k.pc = "verify"
    /\ IF \E i \in DOMAIN sessions : sessions[i].token = token
       THEN /\ Put(c, Done(k, "IntegrityError"))
            /\ UNCHANGED <<users, sessions>>
       ELSE IF ~verify_password(k.pw, h)
       THEN LET w == login_failed(k, now)
            IN  /\ users' = [users EXCEPT ![k.uid] = Flush(@, k.u, w)]
                /\ sessions' = Append(sessions, Session(k.uid, token, now, h))
                /\ Put(c, Done(k, IF w.is_locked /\ w.failed_login_attempts >= MAX_LOGIN_ATTEMPTS
                                   THEN "AccountLockedJustNow"
                                   ELSE "InvalidCredentials"))
       ELSE /\ users' = [users EXCEPT ![k.uid] =
                            Flush(@, k.u, login_succeeded(k, now))]
            /\ sessions' = Append(sessions, Session(k.uid, token, now, h))
            /\ Put(c, Done(k, "Success"))
    /\ UNCHANGED <<now, vtokens, rtokens, nhash>>

\* Lines 301-369: the password check and the commit of its outcome.
\* sessions.token is UNIQUE: a second token with the same payload raises
\* IntegrityError at the commit, which writes nothing.
login_verify(c) ==
    LET k == calls[c]
        h == k.w.password_hash
    IN
    /\ k.op = "login" /\ k.pc = "verify"
    /\ IF ~verify_password(k.pw, h)
       THEN LET w == login_failed(k, now)
            IN  /\ users' = [users EXCEPT ![k.uid] = Flush(@, k.u, w)]
                /\ Put(c, Done(k, IF w.is_locked /\ w.failed_login_attempts >= MAX_LOGIN_ATTEMPTS
                                   THEN "AccountLockedJustNow"
                                   ELSE "InvalidCredentials"))
                /\ UNCHANGED sessions
       ELSE LET token == generate_session_token(k.uid, k.w.email, now)
            IN  IF \E i \in DOMAIN sessions : sessions[i].token = token
                THEN /\ Put(c, Done(k, "IntegrityError"))
                     /\ UNCHANGED <<users, sessions>>
                ELSE /\ users' = [users EXCEPT ![k.uid] =
                                     Flush(@, k.u, login_succeeded(k, now))]
                     /\ sessions' = Append(sessions, Session(k.uid, token, now, h))
                     /\ Put(c, Done(k, "Success"))
    /\ UNCHANGED <<now, vtokens, rtokens, nhash>>

\* ------------------------------------------------ request_password_reset
\* The two message literals of lines 415 and 438.
MessageNotFound == "If the email exists, a password reset link has been sent."
MessageSent == "If the email exists, a password reset link has been sent."

ResetRequestsInFlight ==
    Cardinality({c \in Calls : calls[c].op = "reqreset" /\ ~Free(c)})

\* Lines 408-423: the user query; for an account, PasswordResetToken(...).
request_password_reset_query(c, raw) ==
    /\ Free(c)
    /\ Len(rtokens) + ResetRequestsInFlight < MaxResetTokens
    /\ LET email == lower(raw)
           k == Call("reqreset", email, <<>>, 0)
           uid == FindUser(email)
       IN  IF uid = 0
           THEN Put(c, Done(k, MessageNotFound))
           ELSE Put(c, [k EXCEPT !.pc = "commit", !.uid = uid, !.at = now])
    /\ UNCHANGED <<now, users, vtokens, rtokens, sessions, nhash>>

\* Line 424: the commit inserts the token.
request_password_reset_commit(c) ==
    LET k == calls[c] IN
    /\ k.op = "reqreset" /\ k.pc = "commit"
    /\ rtokens' = Append(rtokens, PasswordResetToken(k.uid, k.at))
    /\ Put(c, [k EXCEPT !.pc = "send", !.tok = Len(rtokens) + 1])
    /\ UNCHANGED <<now, users, vtokens, sessions, nhash>>

\* Lines 426-438: await send_password_reset_email, which raises when the SMTP
\* server refuses; the route (api/routes/auth.py 273-275) catches nothing.
request_password_reset_send(c) ==
    LET k == calls[c] IN
    /\ k.op = "reqreset" /\ k.pc = "send"
    /\ \E sent \in BOOLEAN :
          Put(c, Done(k, IF sent THEN MessageSent ELSE "SendFailed"))
    /\ UNCHANGED <<now, users, vtokens, rtokens, sessions, nhash>>

\* -------------------------------------------------------- reset_password
SessionsOf(uid) == {i \in DOMAIN sessions : sessions[i].user_id = uid}

\* Lines 456-489 with the strength check of line 473 before the token query.
reset_password_query_strength_first(c, token, pw) ==
    /\ Free(c)
    /\ LET k == Call("reset", "", pw, token)
       IN  IF ~validate_strength(pw)
           THEN Put(c, Done(k, "WeakPassword")) /\ UNCHANGED nhash
           ELSE IF token \notin DOMAIN rtokens
           THEN Put(c, Done(k, "InvalidToken")) /\ UNCHANGED nhash
           ELSE IF rtokens[token].is_used
           THEN Put(c, Done(k, "TokenAlreadyUsed")) /\ UNCHANGED nhash
           ELSE IF is_expired(rtokens[token], now)
           THEN Put(c, Done(k, "TokenExpired")) /\ UNCHANGED nhash
           ELSE LET uid == rtokens[token].user_id
                    h == hash_password(pw, nhash)
                IN  /\ Put(c, [k EXCEPT !.pc = "bulk", !.uid = uid, !.at = now,
                                        !.u = users[uid], !.h = h,
                                        !.w = [users[uid] EXCEPT !.password_hash = h],
                                        !.pre = SessionsOf(uid)])
                    /\ nhash' = nhash + 1
    /\ UNCHANGED <<now, users, vtokens, rtokens, sessions>>

\* Lines 456-489 with an unlock next to the assignment of line 485: the reset
\* clears the lock and the counter of the account.
reset_password_query_unlocks(c, token, pw) ==
    /\ Free(c)
    /\ LET k == Call("reset", "", pw, token)
       IN  IF token \notin DOMAIN rtokens
           THEN Put(c, Done(k, "InvalidToken")) /\ UNCHANGED nhash
           ELSE IF rtokens[token].is_used
           THEN Put(c, Done(k, "TokenAlreadyUsed")) /\ UNCHANGED nhash
           ELSE IF is_expired(rtokens[token], now)
           THEN Put(c, Done(k, "TokenExpired")) /\ UNCHANGED nhash
           ELSE IF ~validate_strength(pw)
           THEN Put(c, Done(k, "WeakPassword")) /\ UNCHANGED nhash
           ELSE LET uid == rtokens[token].user_id
                    h == hash_password(pw, nhash)
                IN  /\ Put(c, [k EXCEPT !.pc = "bulk", !.uid = uid, !.at = now,
                                        !.u = users[uid], !.h = h,
                                        !.w = [users[uid] EXCEPT !.password_hash = h,
                                                                 !.is_locked = FALSE,
                                                                 !.locked_until = Null,
                                                                 !.failed_login_attempts = 0],
                                        !.pre = SessionsOf(uid)])
                    /\ nhash' = nhash + 1
    /\ UNCHANGED <<now, users, vtokens, rtokens, sessions>>

\* Lines 456-489: the token query, the checks existence / used / expired /
\* strength, the user query, the new hash, the changes in the identity map.
reset_password_query(c, token, pw) ==
    /\ Free(c)
    /\ LET k == Call("reset", "", pw, token)
       IN  IF token \notin DOMAIN rtokens
           THEN Put(c, Done(k, "InvalidToken")) /\ UNCHANGED nhash
           ELSE IF rtokens[token].is_used
           THEN Put(c, Done(k, "TokenAlreadyUsed")) /\ UNCHANGED nhash
           ELSE IF is_expired(rtokens[token], now)
           THEN Put(c, Done(k, "TokenExpired")) /\ UNCHANGED nhash
           ELSE IF ~validate_strength(pw)
           THEN Put(c, Done(k, "WeakPassword")) /\ UNCHANGED nhash
           ELSE LET uid == rtokens[token].user_id
                    h == hash_password(pw, nhash)
                IN  /\ Put(c, [k EXCEPT !.pc = "bulk", !.uid = uid, !.at = now,
                                        !.u = users[uid], !.h = h,
                                        !.w = [users[uid] EXCEPT !.password_hash = h],
                                        !.pre = SessionsOf(uid)])
                    /\ nhash' = nhash + 1
    /\ UNCHANGED <<now, users, vtokens, rtokens, sessions>>

\* Lines 491-495: the bulk UPDATE of the account's sessions runs inside the
\* transaction: it matches the rows committed by now, and its writes are
\* visible to others only at the commit.
reset_password_update(c) ==
    LET k == calls[c] IN
    /\ k.op = "reset" /\ k.pc = "bulk"
    /\ Put(c, [k EXCEPT !.pc = "commit", !.bulk = SessionsOf(k.uid)])
    /\ UNCHANGED <<now, users, vtokens, rtokens, sessions, nhash>>

\* Line 497 without the UPDATE of lines 493-495: the sessions stay active.
reset_password_commit_keeps_sessions(c) ==
    LET k == calls[c] IN
    /\ k.op = "reset" /\ k.pc = "commit"
    /\ users' = [users EXCEPT ![k.uid] = Flush(@, k.u, k.w)]
    /\ rtokens' = [rtokens EXCEPT ![k.tok] =
                      [@ EXCEPT !.is_used = TRUE, !.used_at = k.at]]
    /\ Put(c, Done(k, "Success"))
    /\ UNCHANGED <<now, vtokens, sessions, nhash>>

\* Line 497 with the UPDATE of lines 493-495 losing its filter on user_id:
\* the sessions of every account are deactivated.
reset_password_commit_all_accounts(c) ==
    LET k == calls[c] IN
    /\ k.op = "reset" /\ k.pc = "commit"
    /\ users' = [users EXCEPT ![k.uid] = Flush(@, k.u, k.w)]
    /\ rtokens' = [rtokens EXCEPT ![k.tok] =
                      [@ EXCEPT !.is_used = TRUE, !.used_at = k.at]]
    /\ sessions' = [i \in DOMAIN sessions |-> [sessions[i] EXCEPT !.is_active = FALSE]]
    /\ Put(c, Done(k, "Success"))
    /\ UNCHANGED <<now, vtokens, nhash>>

\* Line 497 with a revocation next to lines 488-489: every unused reset token
\* of the account is marked used.
reset_password_commit_revokes_tokens(c) ==
    LET k == calls[c] IN
    /\ k.op = "reset" /\ k.pc = "commit"
    /\ users' = [users EXCEPT ![k.uid] = Flush(@, k.u, k.w)]
    /\ rtokens' = [t \in DOMAIN rtokens |->
                      IF rtokens[t].user_id = k.uid /\ ~rtokens[t].is_used
                      THEN [rtokens[t] EXCEPT !.is_used = TRUE, !.used_at = k.at]
                      ELSE rtokens[t]]
    /\ sessions' = [i \in DOMAIN sessions |->
                      IF i \in k.bulk THEN [sessions[i] EXCEPT !.is_active = FALSE]
                                      ELSE sessions[i]]
    /\ Put(c, Done(k, "Success"))
    /\ UNCHANGED <<now, vtokens, nhash>>

\* Line 497: the commit writes the hash, the token and the sessions together.
reset_password_commit(c) ==
    LET k == calls[c] IN
    /\ k.op = "reset" /\ k.pc = "commit"
    /\ users' = [users EXCEPT ![k.uid] = Flush(@, k.u, k.w)]
    /\ rtokens' = [rtokens EXCEPT ![k.tok] =
                      [@ EXCEPT !.is_used = TRUE, !.used_at = k.at]]
    /\ sessions' = [i \in DOMAIN sessions |->
                      IF i \in k.bulk THEN [sessions[i] EXCEPT !.is_active = FALSE]
                                      ELSE sessions[i]]
    /\ Put(c, Done(k, "Success"))
    /\ UNCHANGED <<now, vtokens, nhash>>

\* ---------------------------------------------------------------- logout
\* The route logout (api/routes/auth.py 329-369): a header that does not start
\* with "Bearer " is answered 401; otherwise the route calls
\* auth_service.logout, an attribute AuthService does not have: the call
\* raises AttributeError, which the except ValueError of line 365 does not
\* catch.  token is the index of the session whose token the header carries,
\* 0 for a token no session has.
logout(c, bearer, token) ==
    /\ Free(c)
    /\ LET k == Call("logout", "", <<>>, token)
       IN  Put(c, Done(k, IF ~bearer THEN "InvalidAuthorizationHeader"
                                     ELSE "AttributeError"))
    /\ UNCHANGED <<now, users, vtokens, rtokens, sessions, nhash>>

\* --------------------------------------------------------- specifications
TokenInputs == 0..MaxResetTokens

\* The call of slot c takes its next step.
Step(c) ==
    \/ register_user_commit(c)
    \/ register_user_send(c)
    \/ verify_email_commit(c)
    \/ login_unlock(c)
    \/ login_reload(c)
    \/ login_verify(c)
    \/ request_password_reset_commit(c)
    \/ request_password_reset_send(c)
    \/ reset_password_update(c)
    \/ reset_password_commit(c)

\* Calls one after the other (slot 1), on one account; the third address is
\* never registered.
Next ==
    \/ Free(1) /\ Tick(MaxTime)
    \/ \E raw \in OneAccount, pw \in RegisterPasswords : register_user_query(1, raw, pw)
    \/ \E token \in TokenInputs : verify_email_query(1, token)
    \/ Room(MaxSessions) /\ \E raw \in RawEmails, pw \in LoginPasswords : login_query(1, raw, pw)
    \/ \E raw \in RawEmails : request_password_reset_query(1, raw)
    \/ \E token \in TokenInputs, pw \in ResetPasswords : reset_password_query(1, token, pw)
    \/ Step(1)

Spec == Init /\ [][Next]_vars

\* The store after register_user("a@x.io", SecurePass) and
\* request_password_reset("a@x.io") at time 0: an unverified account with one
\* verification token and one reset token, both unused.
ConcInit ==
    /\ now = 0
    /\ users = <<User("a@x.io", hash_password(SecurePass, 1))>>
    /\ vtokens = <<VerificationToken(1, 0)>>
    /\ rtokens = <<PasswordResetToken(1, 0)>>
    /\ sessions = <<>>
    /\ nhash = 2
    /\ calls = [c \in Calls |-> Idle]

\* The passwords sent to reset_password by overlapping calls.
ConcResetPasswords == {NewPass}

\* Calls that overlap (two slots) on that account: each step is one database
\* interaction of one call, and the clock moves at any point.
ConcNext ==
    \/ Tick(ConcMaxTime)
    \/ \E c \in Calls :
          \/ \E token \in TokenInputs : verify_email_query(c, token)
          \/ Room(MaxSessions) /\ \E raw \in OneAccount, pw \in LoginPasswords : login_query(c, raw, pw)
          \/ \E token \in TokenInputs, pw \in ConcResetPasswords : reset_password_query(c, token, pw)
          \/ verify_email_commit(c)
          \/ login_unlock(c)
          \/ login_reload(c)
          \/ login_verify(c)
          \/ reset_password_update(c)
          \/ reset_password_commit(c)

ConcSpec == ConcInit /\ [][ConcNext]_vars

\* The store after register_user, verify_email and request_password_reset for
\* "a@x.io" and then for "b@x.io", all at time 0: two verified accounts, each
\* with a used verification token and an unused reset token.
TwoInit ==
    /\ now = 0
    /\ users = <<[User("a@x.io", hash_password(SecurePass, 1)) EXCEPT !.email_verified = TRUE],
                 [User("b@x.io", hash_password(SecurePass, 2)) EXCEPT !.email_verified = TRUE]>>
    /\ vtokens = <<[VerificationToken(1, 0) EXCEPT !.is_used = TRUE, !.used_at = 0],
                   [VerificationToken(2, 0) EXCEPT !.is_used = TRUE, !.used_at = 0]>>
    /\ rtokens = <<PasswordResetToken(1, 0), PasswordResetToken(2, 0)>>
    /\ sessions = <<>>
    /\ nhash = 3
    /\ calls = [c \in Calls |-> Idle]

TwoAccounts == {"a@x.io", "b@x.io"}
TwoTokenInputs == 0..2

\* Calls one after the other (slot 1) on those two accounts.
TwoNext ==
    \/ Free(1) /\ Tick(TwoMaxTime)
    \/ Room(TwoMaxSessions) /\ \E raw \in TwoAccounts, pw \in LoginPasswords : login_query(1, raw, pw)
    \/ \E token \in TwoTokenInputs, pw \in ResetPasswords : reset_password_query(1, token, pw)
    \/ login_unlock(1)
    \/ login_reload(1)
    \/ login_verify(1)
    \/ reset_password_update(1)
    \/ reset_password_commit(1)
    \/ \E bearer \in BOOLEAN, token \in {0} \cup DOMAIN sessions : logout(1, bearer, token)

TwoSpec == TwoInit /\ [][TwoNext]_vars

\* The tokens sent to verify_email while registrations overlap.
RegTokenInputs == 0..MaxVerificationTokens

\* Registrations that overlap (two slots), from the empty store: register_user,
\* resend_verification and verify_email, each step one database interaction
\* of one call, the clock moving at any point.
RegNext ==
    \/ Tick(RegMaxTime)
    \/ \E c \in Calls :
          \/ \E raw \in RawEmails, pw \in RegisterPasswords : register_user_query(c, raw, pw)
          \/ TokenRoom(MaxVerificationTokens) /\ \E raw \in RawEmails : resend_verification_query(c, raw)
          \/ \E token \in RegTokenInputs : verify_email_query(c, token)
          \/ register_user_commit(c)
          \/ register_user_send(c)
          \/ resend_verification_commit(c)
          \/ resend_verification_send(c)
          \/ verify_email_commit(c)

RegSpec == Init /\ [][RegNext]_vars

\* The lifetimes passed to generate_session_token, and the users it is
\* called for.
JwtDeltas == {-1, 0, 1}
JwtUsers == {<<1, "a@x.io">>, <<2, "b@x.io">>}

\* A caller has a token issued at the current time.
jwt_issue(c, user, delta) ==
    /\ Free(c)
    /\ Put(c, [Idle EXCEPT !.op = "issue", !.pc = "done", !.uid = user[1],
                           !.email = user[2], !.at = now,
                           !.jwt = generate_session_token_delta(user[1], user[2], now, delta)])
    /\ UNCHANGED <<now, users, vtokens, rtokens, sessions, nhash>>

\* A caller signs the payload of the token it holds with a key of its own.
jwt_forge(c) ==
    /\ calls[c].op = "issue"
    /\ Put(c, [calls[c] EXCEPT !.op = "forge",
                               !.jwt = jwt_encode(calls[c].jwt.payload, OtherKey)])
    /\ UNCHANGED <<now, users, vtokens, rtokens, sessions, nhash>>

\* A caller passes the token it holds to verify_token at the current time.
jwt_verify(c) ==
    /\ calls[c].op \in {"issue", "forge", "verify_token"}
    /\ Put(c, [calls[c] EXCEPT !.op = "verify_token", !.at = now,
                               !.claims = verify_token(calls[c].jwt, now)])
    /\ UNCHANGED <<now, users, vtokens, rtokens, sessions, nhash>>

\* The session token codec on its own: tokens are issued, forged and verified
\* as the clock moves.
JwtNext ==
    \/ Tick(JwtMaxTime)
    \/ \E user \in JwtUsers, delta \in JwtDeltas : jwt_issue(1, user, delta)
    \/ jwt_forge(1)
    \/ jwt_verify(1)

JwtSpec == Init /\ [][JwtNext]_vars

\* Passwords for the strength policy: for every set of character classes and
\* every length from 7 to 9, one character of each class of the set, filled
\* up with spaces, which are in no class.
Classes == {Upper, Lowers, Digits, Specials}
Filler == " "
OneOf(class) ==
    IF class = Upper THEN "S" ELSE IF class = Lowers THEN "e"
    ELSE IF class = Digits THEN "1" ELSE "!"
Build(set, n) ==
    [i \in 1..n |->
        IF i = 1 /\ Upper \in set THEN OneOf(Upper)
        ELSE IF i = 2 /\ Lowers \in set THEN OneOf(Lowers)
        ELSE IF i = 3 /\ Digits \in set THEN OneOf(Digits)
        ELSE IF i = 4 /\ Specials \in set THEN OneOf(Specials)
        ELSE Filler]
PolicyPasswords == {Build(set, n) : set \in SUBSET Classes, n \in 7..9}

\* The strength policy as register_user and reset_password apply it: calls one
\* after the other on the store of ConcInit, register_user for a new email and
\* reset_password with the token of the account.
PolicyNext ==
    \/ \E pw \in PolicyPasswords : register_user_query(1, "b@x.io", pw)
    \/ \E pw \in PolicyPasswords : reset_password_query(1, 1, pw)
    \/ register_user_commit(1)
    \/ register_user_send(1)
    \/ reset_password_update(1)
    \/ reset_password_commit(1)

PolicySpec == ConcInit /\ [][PolicyNext]_vars

\* The store after register_user and verify_email for "a@x.io" and two calls
\* of request_password_reset("a@x.io"), all at time 0: a verified account
\* with two unused reset tokens.
ResetInit ==
    /\ now = 0
    /\ users = <<[User("a@x.io", hash_password(SecurePass, 1)) EXCEPT !.email_verified = TRUE]>>
    /\ vtokens = <<[VerificationToken(1, 0) EXCEPT !.is_used = TRUE, !.used_at = 0]>>
    /\ rtokens = <<PasswordResetToken(1, 0), PasswordResetToken(1, 0)>>
    /\ sessions = <<>>
    /\ nhash = 2
    /\ calls = [c \in Calls |-> Idle]

\* Calls one after the other (slot 1) on that account: logins and resets with
\* either token.
ResetNext ==
    \/ Free(1) /\ Tick(ResetMaxTime)
    \/ Room(MaxSessions) /\ \E raw \in OneAccount, pw \in LoginPasswords : login_query(1, raw, pw)
    \/ \E token \in TwoTokenInputs, pw \in ResetPasswords : reset_password_query(1, token, pw)
    \/ login_unlock(1)
    \/ login_reload(1)
    \/ login_verify(1)
    \/ reset_password_update(1)
    \/ reset_password_commit(1)

ResetSpec == ResetInit /\ [][ResetNext]_vars

\* The store after register_user and request_password_reset for "a@x.io" and
\* then for "b@x.io", all at time 0: two unverified accounts, each with an
\* unused verification token and an unused reset token.
CrossInit ==
    /\ now = 0
    /\ users = <<User("a@x.io", hash_password(SecurePass, 1)),
                 User("b@x.io", hash_password(SecurePass, 2))>>
    /\ vtokens = <<VerificationToken(1, 0), VerificationToken(2, 0)>>
    /\ rtokens = <<PasswordResetToken(1, 0), PasswordResetToken(2, 0)>>
    /\ sessions = <<>>
    /\ nhash = 3
    /\ calls = [c \in Calls |-> Idle]

\* Two callers whose calls overlap in any order: the caller of slot c sends
\* the address and the tokens of account c.
CrossNext ==
    \/ Tick(CrossMaxTime)
    \/ \E c \in Calls :
          \/ verify_email_query(c, c)
          \/ Room(MaxSessions) /\ \E pw \in LoginPasswords : login_query(c, users[c].email, pw)
          \/ \E pw \in ConcResetPasswords : reset_password_query(c, c, pw)
          \/ verify_email_commit(c)
          \/ login_unlock(c)
          \/ login_reload(c)
          \/ login_verify(c)
          \/ reset_password_update(c)
          \/ reset_password_commit(c)

CrossSpec == CrossInit /\ [][CrossNext]_vars

\* -------------------------------------------------------------- properties
\* A call starts in slot c in this step.
Starts(c, op) == Free(c) /\ calls'[c] # calls[c] /\ calls'[c].op = op

\* The call of slot c returns in this step.
Returns(c, op) == calls[c].op = op /\ ~Free(c) /\ calls'[c].pc = "done"

\* The account the starting call of slot c names, 0 if none.
Named(c) == FindUser(calls'[c].email)

\* The login of slot c is about to count a wrong password.
WrongPassword(c) ==
    /\ Returns(c, "login") /\ calls[c].pc = "verify"
    /\ ~verify_password(calls[c].pw, users[calls[c].uid].password_hash)

C1_Counting ==
    \A c \in Calls : WrongPassword(c) =>
        LET uid == calls[c].uid
            n == users[uid].failed_login_attempts
        IN  IF n + 1 < MAX_LOGIN_ATTEMPTS
            THEN /\ calls'[c].res = "InvalidCredentials"
                 /\ users'[uid].failed_login_attempts = n + 1
                 /\ ~users'[uid].is_locked
            ELSE /\ calls'[c].res = "AccountLockedJustNow"
                 /\ users'[uid].is_locked
                 /\ users'[uid].locked_until = now + LOCKOUT_DURATION_MINUTES

C1_Locked ==
    \A c \in Calls :
        (/\ Starts(c, "login") /\ Named(c) # 0
         /\ users[Named(c)].email_verified /\ users[Named(c)].is_locked
         /\ users[Named(c)].locked_until # Null
         /\ now < users[Named(c)].locked_until)
        => /\ calls'[c].pc = "done" /\ calls'[c].res = "AccountLocked"
           /\ UNCHANGED store

\* C1: calls one after the other: a wrong-password login on a verified,
\* unlocked account with counter n fails InvalidCredentials and leaves the
\* counter at n + 1, unlocked, while n + 1 < MAX_LOGIN_ATTEMPTS; the one that
\* reaches MAX_LOGIN_ATTEMPTS fails AccountLockedJustNow and sets is_locked
\* and locked_until = now + lockout duration; every login before locked_until,
\* whatever its password, fails AccountLocked and changes nothing in the store.
C1_Lockout == [][C1_Counting /\ C1_Locked]_vars

\* A login with the right password was refused on the locked account.
C1_Witness ==
    \E c \in Calls :
        /\ calls[c].op = "login" /\ calls[c].pc = "done"
        /\ calls[c].res = "AccountLocked"
        /\ verify_password(calls[c].pw, users[calls[c].uid].password_hash)
        /\ users[calls[c].uid].failed_login_attempts = MAX_LOGIN_ATTEMPTS
        /\ users[calls[c].uid].locked_until = users[calls[c].uid].last_failed_login + LOCKOUT_DURATION_MINUTES

C2_Proceeds ==
    \A c \in Calls :
        (/\ Starts(c, "login") /\ Named(c) # 0
         /\ users[Named(c)].email_verified /\ users[Named(c)].is_locked
         /\ users[Named(c)].locked_until # Null
         /\ now >= users[Named(c)].locked_until)
        => calls'[c].pc = "unlock" /\ calls'[c].lazy

C2_Succeeded ==
    \A c \in Calls :
        (/\ calls[c].op = "login" /\ calls[c].pc = "done" /\ calls[c].lazy
         /\ verify_password(calls[c].pw, users[calls[c].uid].password_hash))
        => /\ calls[c].res = "Success"
           /\ ~users[calls[c].uid].is_locked
           /\ users[calls[c].uid].locked_until = Null
           /\ users[calls[c].uid].failed_login_attempts = 0

\* C2: calls one after the other: a login on a locked account whose
\* locked_until has elapsed (now >= locked_until) is not refused but clears the
\* lock, and with the right password that same call returns success and
\* leaves is_locked = false, locked_until = null, failed_login_attempts = 0.
C2_LazyUnlock == [][C2_Proceeds /\ C2_Succeeded']_vars

\* A login cleared an elapsed lock and succeeded.
C2_Witness ==
    \E c \in Calls :
        /\ calls[c].op = "login" /\ calls[c].pc = "done" /\ calls[c].lazy
        /\ calls[c].res = "Success"
        /\ \E i \in DOMAIN sessions : sessions[i].user_id = calls[c].uid /\ sessions[i].token.iat = now

C6_First ==
    \A c \in Calls :
        /\ (/\ Starts(c, "verify") /\ calls'[c].tok \in DOMAIN vtokens
            /\ ~vtokens[calls'[c].tok].is_used
            /\ now <= vtokens[calls'[c].tok].expires_at)
           => calls'[c].pc = "commit"
        /\ (Returns(c, "verify") /\ calls[c].pc = "commit")
           => /\ calls'[c].res = "Success"
              /\ vtokens'[calls[c].tok].is_used
              /\ users'[vtokens[calls[c].tok].user_id].email_verified

C6_Later ==
    \A c \in Calls :
        (/\ Starts(c, "verify") /\ calls'[c].tok \in DOMAIN vtokens
         /\ vtokens[calls'[c].tok].is_used)
        => calls'[c].pc = "done" /\ calls'[c].res = "TokenAlreadyUsed"

C6_Stays ==
    \A t \in DOMAIN vtokens :
        vtokens[t].is_used => t \in DOMAIN vtokens' /\ vtokens'[t].is_used

\* C6: calls one after the other: verify_email with an unused, unexpired
\* token succeeds, marks the token used and sets email_verified of its
\* account; no operation makes a used token unused again, and every
\* verify_email with a used token fails TokenAlreadyUsed.
C6_OneUse == [][C6_First /\ C6_Later /\ C6_Stays]_vars

\* A second verify_email with the token failed after a login in between.
C6_Witness ==
    \E c \in Calls :
        /\ calls[c].op = "verify" /\ calls[c].pc = "done"
        /\ calls[c].res = "TokenAlreadyUsed"
        /\ vtokens[calls[c].tok].is_used
        /\ users[vtokens[calls[c].tok].user_id].email_verified
        /\ sessions # <<>>

\* C10: every request_password_reset returns the message it returns for an
\* email without an account, whether or not the email has an account.
C10_SameResult ==
    \A c \in Calls :
        (calls[c].op = "reqreset" /\ calls[c].pc = "done")
        => calls[c].res = MessageNotFound

\* The call of slot c has returned r from operation op.
Returned(c, op, r) ==
    calls[c].op = op /\ calls[c].pc = "done" /\ calls[c].res = r

\* C3: of the verify_email calls made with one token, whether or not they
\* overlap, one succeeds and every other one fails TokenAlreadyUsed.
C3_OneWinner ==
    \A c1, c2 \in Calls :
        (/\ c1 # c2 /\ calls[c1].tok = calls[c2].tok
         /\ Returned(c1, "verify", "Success")
         /\ calls[c2].op = "verify" /\ calls[c2].pc = "done")
        => calls[c2].res = "TokenAlreadyUsed"

\* C4: of two reset_password calls made with one token, whether or not they
\* overlap, at most one succeeds.
C4_AtMostOne ==
    \A c1, c2 \in Calls :
        ~(/\ c1 # c2 /\ calls[c1].tok = calls[c2].tok
          /\ Returned(c1, "reset", "Success")
          /\ Returned(c2, "reset", "Success"))

\* The login of slot c is about to count a failure against the row it loaded.
CountsFailure(c) ==
    /\ Returns(c, "login") /\ calls[c].pc = "verify"
    /\ ~verify_password(calls[c].pw, calls[c].w.password_hash)

\* C5: every wrong-password login on an unlocked account, whether or not it
\* overlaps another, adds one to the stored failed_login_attempts, and locks
\* the account when the stored counter reaches MAX_LOGIN_ATTEMPTS.
C5_NoLostIncrement ==
    [][\A c \in Calls :
          (CountsFailure(c) /\ ~users[calls[c].uid].is_locked) =>
              LET n == users[calls[c].uid].failed_login_attempts
              IN  /\ users'[calls[c].uid].failed_login_attempts = n + 1
                  /\ n + 1 >= MAX_LOGIN_ATTEMPTS => users'[calls[c].uid].is_locked]_vars

\* C8: overlapping calls: in every store state in which the account has the
\* hash a reset_password call computed, that call's token is used and every
\* session of the account that existed when the call started is inactive.
C8_Atomic ==
    \A c \in Calls :
        (/\ calls[c].op = "reset" /\ calls[c].uid # 0
         /\ users[calls[c].uid].password_hash = calls[c].h)
        => /\ rtokens[calls[c].tok].is_used
           /\ \A i \in calls[c].pre : ~sessions[i].is_active

\* A reset has committed over an earlier session while a login was in flight.
C8_Witness ==
    \E c, d \in Calls :
        /\ Returned(c, "reset", "Success") /\ calls[c].pre # {}
        /\ users[calls[c].uid].password_hash = calls[c].h
        /\ calls[d].op = "login" /\ calls[d].pc = "verify"

\* C9: once a login and a reset_password on one account have both returned,
\* no active session of the account was granted on a hash older than the one
\* the reset stored.
C9_NoStaleSession ==
    \A c1, c2 \in Calls :
        (/\ calls[c1].op = "login" /\ calls[c1].pc = "done"
         /\ Returned(c2, "reset", "Success") /\ calls[c1].uid = calls[c2].uid)
        => \A i \in DOMAIN sessions :
              (sessions[i].user_id = calls[c2].uid /\ sessions[i].is_active)
              => sessions[i].granted_on.salt >= calls[c2].h.salt

\* C7: the commit of a reset_password call leaves every session the account
\* had when the call started inactive, however many there are, and leaves the
\* sessions of every other account as they were.
C7_DeactivatesAll ==
    [][\A c \in Calls :
          (Returns(c, "reset") /\ calls[c].pc = "commit") =>
              /\ DOMAIN sessions' = DOMAIN sessions
              /\ \A i \in calls[c].pre : ~sessions'[i].is_active
              /\ \A i \in DOMAIN sessions :
                    sessions[i].user_id # calls[c].uid => sessions'[i] = sessions[i]]_vars

\* A reset has succeeded for an account with two sessions, at least one still
\* active when it started, while the other account holds an active session.
C7_Witness ==
    \E c \in Calls :
        /\ Returned(c, "reset", "Success")
        /\ Cardinality(calls[c].pre) >= 2
        /\ \A i \in calls[c].pre : ~sessions[i].is_active
        /\ \E i \in DOMAIN sessions :
              sessions[i].user_id # calls[c].uid /\ sessions[i].is_active

\* The resend_verification call of slot c has returned without inserting a
\* token: the email had no account, or its account was already verified.
ResendRefused(c) ==
    calls[c].op = "resend" /\ calls[c].pc = "done" /\ calls[c].tok = 0

\* C11: every resend_verification that finds no account or an already
\* verified account returns the message it returns for an email without an
\* account.
C11_SameMessage ==
    \A c \in Calls : ResendRefused(c) => calls[c].res = MessageResendNotFound

C13_UniqueEmail ==
    \A i, j \in DOMAIN users :
        i # j => lower(users[i].email) # lower(users[j].email)

\* Two register_user calls for one email overlapped: one created the account,
\* the other was stopped at its INSERT; a second account exists as well.
C13_Witness ==
    \E c, d \in Calls :
        /\ Returned(c, "register", "IntegrityError")
        /\ calls[d].op = "register" /\ calls[d].email = calls[c].email
        /\ calls[d].uid # 0
        /\ Len(users) = 2

\* The commit of the register_user call of slot c succeeds in this step.
Registers(c) ==
    calls[c].op = "register" /\ calls[c].pc = "commit" /\ calls'[c].pc = "send"

C14_Row ==
    \A c \in Calls : Registers(c) =>
        LET n == Len(users) + 1
            m == Len(vtokens) + 1
        IN  /\ users' = Append(users,
                  [email |-> calls[c].email, password_hash |-> calls[c].h,
                   email_verified |-> FALSE, is_locked |-> FALSE,
                   locked_until |-> Null, failed_login_attempts |-> 0,
                   last_failed_login |-> Null, last_login_at |-> Null])
            /\ lower(users'[n].email) = users'[n].email
            /\ vtokens' = Append(vtokens,
                  [user_id |-> n, is_used |-> FALSE, used_at |-> Null,
                   expires_at |-> now + VERIFICATION_TOKEN_EXPIRY_HOURS])
            /\ Cardinality({t \in DOMAIN vtokens' : vtokens'[t].user_id = n}) = 1

C14_Together ==
    /\ Len(users') # Len(users) => \E c \in Calls : Registers(c)
    /\ \A u \in DOMAIN users' : \E t \in DOMAIN vtokens' : vtokens'[t].user_id = u
    /\ \A t \in DOMAIN vtokens' : vtokens'[t].user_id \in DOMAIN users'

\* C14: overlapping registrations: the commit of a register_user adds one row
\* to users (the lowercased email, the call's hash, unverified, unlocked,
\* locked_until null, counter 0) and one unused verification token owned by it
\* with expires_at = now + the verification TTL; no other step adds an
\* account, and in no store state is there an account without a token or a
\* token without its account.
C14_Creates == [][C14_Row /\ C14_Together]_vars

\* A register_user has returned its account while another call was in flight.
C14_Witness ==
    \E c, d \in Calls :
        /\ Returned(c, "register", "Success") /\ calls[c].uid \in DOMAIN users
        /\ users[calls[c].uid].email = calls[c].email
        /\ \E t \in DOMAIN vtokens : vtokens[t].user_id = calls[c].uid
        /\ ~Free(d)

\* C15: a register_user that created its account returns it, and a
\* request_password_reset for an existing account returns its message, also
\* when the notification could not be sent.
C15_SendFailureHidden ==
    \A c \in Calls :
        (calls[c].pc = "done" /\ calls[c].uid # 0) =>
            /\ calls[c].op = "register" => calls[c].res = "Success"
            /\ calls[c].op = "reqreset" => calls[c].res = MessageSent

\* C16: a verify_email with a token that no row has fails InvalidToken, and one
\* with a used token fails TokenAlreadyUsed, past expires_at too; TokenExpired
\* is returned for unused tokens only.
C16_Order ==
    [][\A c \in Calls : Starts(c, "verify") =>
          LET t == calls'[c].tok
          IN  /\ t \notin DOMAIN vtokens
                 => calls'[c].pc = "done" /\ calls'[c].res = "InvalidToken"
              /\ (t \in DOMAIN vtokens /\ vtokens[t].is_used)
                 => calls'[c].pc = "done" /\ calls'[c].res = "TokenAlreadyUsed"
              /\ calls'[c].res = "TokenExpired"
                 => t \in DOMAIN vtokens /\ ~vtokens[t].is_used]_vars

\* A verify_email with a token both used and past expires_at was refused as
\* used.
C16_Witness ==
    \E c \in Calls :
        /\ Returned(c, "verify", "TokenAlreadyUsed")
        /\ vtokens[calls[c].tok].is_used
        /\ now > vtokens[calls[c].tok].expires_at

ResetFailures == {"InvalidToken", "TokenAlreadyUsed", "TokenExpired", "WeakPassword"}

C17_Checks ==
    \A c \in Calls : Starts(c, "reset") =>
        LET t == calls'[c].tok
        IN  IF t \notin DOMAIN rtokens
            THEN calls'[c].pc = "done" /\ calls'[c].res = "InvalidToken"
            ELSE IF rtokens[t].is_used
            THEN calls'[c].pc = "done" /\ calls'[c].res = "TokenAlreadyUsed"
            ELSE IF now > rtokens[t].expires_at
            THEN calls'[c].pc = "done" /\ calls'[c].res = "TokenExpired"
            ELSE IF ~validate_strength(calls'[c].pw)
            THEN calls'[c].pc = "done" /\ calls'[c].res = "WeakPassword"
            ELSE calls'[c].pc = "bulk"

C17_NoChange ==
    \A c \in Calls :
        (/\ calls'[c] # calls[c] /\ calls'[c].op = "reset" /\ calls'[c].pc = "done"
         /\ calls'[c].res \in ResetFailures)
        => UNCHANGED store

\* C17: calls one after the other: reset_password fails InvalidToken for an
\* unknown token, else TokenAlreadyUsed for a used one, else TokenExpired past
\* expires_at, else WeakPassword for a password that fails the policy, and
\* otherwise goes on; a call that fails changes no row, so the token of a call
\* refused for its password is accepted by the next call with a strong one.
C17_Failures == [][C17_Checks /\ C17_NoChange]_vars

\* A reset_password was refused for its weak password: its token is still
\* unused and unexpired and the account's session is still active.
C17_Witness ==
    \E c \in Calls :
        /\ Returned(c, "reset", "WeakPassword")
        /\ ~rtokens[calls[c].tok].is_used
        /\ now <= rtokens[calls[c].tok].expires_at
        /\ \E i \in DOMAIN sessions :
              /\ sessions[i].user_id = rtokens[calls[c].tok].user_id
              /\ sessions[i].is_active

\* C18: calls one after the other: a verify_email with an unused token whose
\* expires_at is in the past fails TokenExpired and changes no row: the token
\* stays unused and email_verified of its account stays as it was.
C18_Expired ==
    [][\A c \in Calls :
          (/\ Starts(c, "verify") /\ calls'[c].tok \in DOMAIN vtokens
           /\ ~vtokens[calls'[c].tok].is_used
           /\ vtokens[calls'[c].tok].expires_at < now)
          => /\ calls'[c].pc = "done" /\ calls'[c].res = "TokenExpired"
             /\ UNCHANGED store]_vars

\* A verify_email was refused for its expired token, which is still unused,
\* and the account is still unverified.
C18_Witness ==
    \E c \in Calls :
        /\ Returned(c, "verify", "TokenExpired")
        /\ ~vtokens[calls[c].tok].is_used
        /\ vtokens[calls[c].tok].expires_at < now
        /\ ~users[vtokens[calls[c].tok].user_id].email_verified

\* C19: calls one after the other: a verify_email or a reset_password succeeds
\* only at a time strictly before expires_at of its token.
C19_BeforeExpiry ==
    [][\A c \in Calls :
          /\ (Returns(c, "verify") /\ calls'[c].res = "Success")
             => now < vtokens[calls[c].tok].expires_at
          /\ (Returns(c, "reset") /\ calls'[c].res = "Success")
             => now < rtokens[calls[c].tok].expires_at]_vars

\* C20: calls one after the other: a login for an account whose email is not
\* verified fails EmailNotVerified, whatever its password, and changes no row:
\* no session is created and failed_login_attempts, is_locked and locked_until
\* stay as they were.
C20_Unverified ==
    [][\A c \in Calls :
          (/\ Starts(c, "login") /\ Named(c) # 0
           /\ ~users[Named(c)].email_verified)
          => /\ calls'[c].pc = "done" /\ calls'[c].res = "EmailNotVerified"
             /\ UNCHANGED store]_vars

\* A login with a wrong password was refused on the unverified account, whose
\* counter is still 0.
C20_Witness ==
    \E c \in Calls :
        /\ Returned(c, "login", "EmailNotVerified")
        /\ ~users[calls[c].uid].email_verified
        /\ ~verify_password(calls[c].pw, users[calls[c].uid].password_hash)
        /\ users[calls[c].uid].failed_login_attempts = 0
        /\ ~users[calls[c].uid].is_locked
        /\ sessions = <<>>

\* C21: calls one after the other: a login for an email without an account
\* returns what a wrong-password login below the threshold returns on a
\* verified, unlocked account, and changes no row.
C21_SameAsWrongPassword ==
    [][\A c \in Calls :
          /\ (Starts(c, "login") /\ Named(c) = 0)
             => /\ calls'[c].pc = "done" /\ UNCHANGED store
                /\ calls'[c].res = "InvalidCredentials"
          /\ (/\ WrongPassword(c)
              /\ users[calls[c].uid].failed_login_attempts + 1 < MAX_LOGIN_ATTEMPTS)
             => calls'[c].res = "InvalidCredentials"]_vars

\* A login for an email without an account was refused while a verified,
\* unlocked account exists.
C21_Witness ==
    \E c \in Calls :
        /\ Returned(c, "login", "InvalidCredentials")
        /\ FindUser(calls[c].email) = 0
        /\ \E u \in DOMAIN users : users[u].email_verified /\ ~users[u].is_locked

\* C22: calls one after the other: a login that succeeds was made with the
\* account's email up to letter case and its password, on a verified account
\* not locked; it adds one row to sessions, owned by the account, active,
\* with expires_at = now + the session TTL and a token that carries the
\* account's id and email, and changes no other session.
C22_OneSession ==
    [][\A c \in Calls :
          (Returns(c, "login") /\ calls'[c].res = "Success") =>
              LET uid == calls[c].uid
                  n == Len(sessions) + 1
              IN  /\ users[uid].email = calls[c].email
                  /\ users[uid].email_verified /\ ~users[uid].is_locked
                  /\ verify_password(calls[c].pw, users[uid].password_hash)
                  /\ Len(sessions') = n
                  /\ \A i \in DOMAIN sessions : sessions'[i] = sessions[i]
                  /\ sessions'[n].user_id = uid
                  /\ sessions'[n].is_active
                  /\ sessions'[n].expires_at = now + SESSION_EXPIRY_HOURS
                  /\ sessions'[n].token.user_id = uid
                  /\ sessions'[n].token.email = users[uid].email
                  /\ \A i \in DOMAIN sessions : sessions[i].token # sessions'[n].token]_vars

\* A login has succeeded on an account that already had a session.
C22_Witness ==
    \E c \in Calls :
        /\ Returned(c, "login", "Success")
        /\ Len(sessions) = 2
        /\ sessions[2].user_id = calls[c].uid /\ sessions[2].is_active
        /\ sessions[2].expires_at = now + SESSION_EXPIRY_HOURS
        /\ sessions[1].is_active

\* C23: calls one after the other: a login that succeeds stores the time of
\* the login in last_login_at of the account.
C23_LastLogin ==
    [][\A c \in Calls :
          (Returns(c, "login") /\ calls'[c].res = "Success")
          => users'[calls[c].uid].last_login_at = now]_vars

C24_Zeroed ==
    \A c \in Calls :
        (Returns(c, "login") /\ calls'[c].res = "Success")
        => /\ users'[calls[c].uid].failed_login_attempts = 0
           /\ ~users'[calls[c].uid].is_locked

C24_Counted ==
    \A c \in Calls : WrongPassword(c) =>
        LET n == users[calls[c].uid].failed_login_attempts
        IN  /\ users'[calls[c].uid].failed_login_attempts = n + 1
            /\ users'[calls[c].uid].is_locked <=> n + 1 >= MAX_LOGIN_ATTEMPTS

C24_OnlyLogin ==
    \A u \in DOMAIN users :
        (\/ users'[u].failed_login_attempts # users[u].failed_login_attempts
         \/ users'[u].is_locked # users[u].is_locked)
        => \E c \in Calls : calls[c].op = "login" /\ ~Free(c) /\ calls[c].uid = u

\* C24: calls one after the other: a login that succeeds leaves
\* failed_login_attempts = 0, each wrong-password login adds one and locks
\* exactly when the counter reaches MAX_LOGIN_ATTEMPTS, and no other operation
\* changes the counter or the lock: after a success the account is locked by
\* MAX_LOGIN_ATTEMPTS further wrong passwords in a row, not by fewer.
C24_Reset == [][C24_Zeroed /\ C24_Counted /\ C24_OnlyLogin]_vars

\* A login succeeded at the instant of a counted failure, without a lock in
\* between: it has set the counter from at least 1 to 0.
C24_Witness ==
    \E c \in Calls :
        /\ Returned(c, "login", "Success") /\ ~calls[c].lazy
        /\ users[calls[c].uid].last_failed_login = now
        /\ users[calls[c].uid].failed_login_attempts = 0
        /\ ~users[calls[c].uid].is_locked

\* C25: a logout whose header carries the token of an active session sets
\* is_active of that session to false and changes nothing else; one whose
\* token no active session has fails InvalidSession and changes nothing.
C25_Logout ==
    [][\A c \in Calls :
          (Starts(c, "logout") /\ calls'[c].res # "InvalidAuthorizationHeader") =>
              LET t == calls'[c].tok
              IN  IF t \in DOMAIN sessions /\ sessions[t].is_active
                  THEN /\ calls'[c].res = "Success"
                       /\ sessions' = [sessions EXCEPT ![t].is_active = FALSE]
                       /\ UNCHANGED <<users, vtokens, rtokens>>
                  ELSE /\ calls'[c].res = "InvalidSession"
                       /\ UNCHANGED store]_vars

\* C26: a register_user that has failed DuplicateEmail or WeakPassword has
\* emitted a failure event with its reason, and one that has created the
\* account has emitted a success event.
C26_Audited ==
    \A c \in Calls :
        (calls[c].op = "register" /\ calls[c].pc = "done") =>
            LET e == log_registration_attempt(calls[c].res)
            IN  /\ calls[c].res \in {"DuplicateEmail", "WeakPassword"}
                   => e.event = "registration_failure" /\ e.reason # ""
                /\ calls[c].uid # 0 => e.event = "registration_success"

\* C27: overlapping calls: in every store state every verification token with
\* is_used = true has used_at set and belongs to an account with
\* email_verified = true.
C27_UsedMeansVerified ==
    \A t \in DOMAIN vtokens :
        vtokens[t].is_used =>
            /\ vtokens[t].used_at # Null
            /\ vtokens[t].user_id \in DOMAIN users
            /\ users[vtokens[t].user_id].email_verified

\* A verify_email has committed while another call was in flight.
C27_Witness ==
    \E c, d \in Calls :
        /\ Returned(c, "verify", "Success")
        /\ vtokens[calls[c].tok].is_used
        /\ vtokens[calls[c].tok].used_at # Null
        /\ users[calls[c].uid].email_verified
        /\ ~Free(d)

\* C28: verify_token of a token returns the claims it was issued with (the
\* same user_id and email) exactly when the token carries the service's
\* signature and the time of the call is before its exp; otherwise it returns
\* None.
C28_RoundTrip ==
    \A c \in Calls :
        calls[c].op = "verify_token" =>
            LET token == calls[c].jwt
            IN  IF token.key = SECRET_KEY /\ calls[c].at < token.payload.exp
                THEN /\ calls[c].claims.user_id = token.payload.user_id
                     /\ calls[c].claims.email = token.payload.email
                ELSE calls[c].claims = None

\* The strength policy in words: at least 8 characters, and an uppercase
\* letter, a lowercase letter, a digit and a symbol among them.
MeetsPolicy(p) ==
    /\ Len(p) >= 8
    /\ \E i \in 1..Len(p) : p[i] \in Upper
    /\ \E i \in 1..Len(p) : p[i] \in Lowers
    /\ \E i \in 1..Len(p) : p[i] \in Digits
    /\ \E i \in 1..Len(p) : p[i] \in Specials

\* C29: validate_strength is true exactly for the passwords of at least 8
\* characters with an uppercase letter, a lowercase letter, a digit and a
\* symbol, and a register_user for a new email and a reset_password with a
\* valid token fail WeakPassword exactly for the passwords for which it is
\* false.
C29_Policy ==
    [][/\ \A p \in PolicyPasswords : validate_strength(p) <=> MeetsPolicy(p)
       /\ \A c \in Calls :
            /\ (Starts(c, "register") /\ Named(c) = 0)
               => /\ calls'[c].res = "WeakPassword" <=> ~MeetsPolicy(calls'[c].pw)
                  /\ calls'[c].pc = "commit" <=> MeetsPolicy(calls'[c].pw)
            /\ (/\ Starts(c, "reset") /\ calls'[c].tok \in DOMAIN rtokens
                /\ ~rtokens[calls'[c].tok].is_used
                /\ now <= rtokens[calls'[c].tok].expires_at)
               => /\ calls'[c].res = "WeakPassword" <=> ~MeetsPolicy(calls'[c].pw)
                  /\ calls'[c].pc = "bulk" <=> MeetsPolicy(calls'[c].pw)]_vars

\* A reset_password was refused for a password of 8 characters that lacks
\* nothing but a symbol, after a register_user was accepted with one of 8
\* characters of all four classes.
C29_Witness ==
    \E c \in Calls :
        /\ Returned(c, "reset", "WeakPassword")
        /\ calls[c].pw = Build({Upper, Lowers, Digits}, 8)
        /\ ~rtokens[calls[c].tok].is_used
        /\ Len(users) = 2
        /\ users[2].password_hash.pw = Build(Classes, 8)

\* C30: calls one after the other: a login on a locked account whose
\* locked_until has elapsed clears the lock, and with a wrong password the
\* same call then counts one failure: it fails InvalidCredentials and leaves
\* is_locked = false, locked_until = null and failed_login_attempts = 1.
C30_UnlockThenCount ==
    [][\A c \in Calls :
          /\ (/\ Starts(c, "login") /\ Named(c) # 0
              /\ users[Named(c)].email_verified /\ users[Named(c)].is_locked
              /\ users[Named(c)].locked_until # Null
              /\ now >= users[Named(c)].locked_until)
             => calls'[c].pc = "unlock" /\ calls'[c].lazy
          /\ (WrongPassword(c) /\ calls[c].lazy)
             => /\ calls'[c].res = "InvalidCredentials"
                /\ ~users'[calls[c].uid].is_locked
                /\ users'[calls[c].uid].locked_until = Null
                /\ users'[calls[c].uid].failed_login_attempts = 1]_vars

\* A login with a wrong password cleared an elapsed lock and was counted once.
C30_Witness ==
    \E c \in Calls :
        /\ Returned(c, "login", "InvalidCredentials") /\ calls[c].lazy
        /\ ~users[calls[c].uid].is_locked
        /\ users[calls[c].uid].locked_until = Null
        /\ users[calls[c].uid].failed_login_attempts = 1
        /\ users[calls[c].uid].last_failed_login = now

\* C31: a resend_verification that finds an unverified account adds exactly
\* one verification token, unused, of that account, expiring
\* VERIFICATION_TOKEN_EXPIRY_HOURS after the utcnow() the call read, and
\* leaves every earlier token as it was; one that finds no account or a
\* verified account adds none; and verify_email accepts every token that is
\* unused and not expired, the earlier ones included.
C31_ResendAddsOne ==
    [][\A c \in Calls :
          /\ Starts(c, "resend")
             => /\ vtokens' = vtokens
                /\ (Named(c) = 0 \/ users[Named(c)].email_verified)
                   <=> calls'[c].pc = "done"
                /\ calls'[c].pc = "done" => calls'[c].tok = 0
                /\ calls'[c].pc # "done"
                   => /\ calls'[c].pc = "commit" /\ calls'[c].at = now
                      /\ calls'[c].uid = Named(c)
          /\ (calls[c].op = "resend" /\ calls[c].pc = "commit" /\ calls'[c] # calls[c])
             => /\ Len(vtokens') = Len(vtokens) + 1
                /\ SubSeq(vtokens', 1, Len(vtokens)) = vtokens
                /\ vtokens'[Len(vtokens')] =
                      [user_id |-> calls[c].uid,
                       expires_at |-> calls[c].at + VERIFICATION_TOKEN_EXPIRY_HOURS,
                       is_used |-> FALSE, used_at |-> Null]
                /\ calls'[c].pc = "send"
          /\ (calls[c].op = "resend" /\ calls[c].pc = "send" /\ calls'[c] # calls[c])
             => vtokens' = vtokens
          /\ (/\ Starts(c, "verify") /\ calls'[c].tok \in DOMAIN vtokens
              /\ ~vtokens[calls'[c].tok].is_used
              /\ now <= vtokens[calls'[c].tok].expires_at)
             => calls'[c].pc = "commit"]_vars

\* A resend_verification made at time 0 has added the second token of the
\* account, and the first token was consumed by a verify_email at time 1.
C31_Witness ==
    \E c, d \in Calls :
        /\ Returned(c, "resend", MessageResendSent) /\ calls[c].tok = 2
        /\ Len(vtokens) = 2
        /\ vtokens[2].user_id = vtokens[1].user_id
        /\ vtokens[2].expires_at = VERIFICATION_TOKEN_EXPIRY_HOURS
        /\ ~vtokens[2].is_used
        /\ Returned(d, "verify", "Success") /\ calls[d].tok = 1
        /\ vtokens[1].is_used /\ vtokens[1].used_at = 1

\* C32: calls one after the other: in every store state, for every account,
\* is_locked holds exactly when locked_until is set and exactly when
\* failed_login_attempts = MAX_LOGIN_ATTEMPTS, and failed_login_attempts lies
\* between 0 and MAX_LOGIN_ATTEMPTS.
C32_LockFields ==
    \A i \in DOMAIN users :
        /\ users[i].is_locked <=> users[i].locked_until # Null
        /\ users[i].is_locked <=> users[i].failed_login_attempts = MAX_LOGIN_ATTEMPTS
        /\ users[i].failed_login_attempts \in 0..MAX_LOGIN_ATTEMPTS

\* An account was locked, its lock has elapsed and a login has cleared it: the
\* call is past the commit of the unlock.
C32_Witness ==
    \E c \in Calls :
        /\ calls[c].op = "login" /\ calls[c].lazy /\ calls[c].pc = "reload"
        /\ ~users[calls[c].uid].is_locked
        /\ users[calls[c].uid].locked_until = Null
        /\ users[calls[c].uid].failed_login_attempts = 0
        /\ users[calls[c].uid].last_failed_login # Null

\* C33: a login is refused AccountLocked exactly when its account is verified,
\* is_locked and the clock is before locked_until, and the refusal leaves the
\* store as it was: the counter, last_failed_login and locked_until of the
\* account keep their values.
C33_RefusalChangesNothing ==
    [][\A c \in Calls :
          Starts(c, "login") /\ Named(c) # 0
          => /\ (calls'[c].pc = "done" /\ calls'[c].res = "AccountLocked")
                <=> (/\ users[Named(c)].email_verified
                     /\ users[Named(c)].is_locked
                     /\ users[Named(c)].locked_until # Null
                     /\ now < users[Named(c)].locked_until)
             /\ (calls'[c].pc = "done" /\ calls'[c].res = "AccountLocked")
                => /\ users' = users /\ sessions' = sessions
                   /\ vtokens' = vtokens /\ rtokens' = rtokens]_vars

\* A login was refused AccountLocked; the account holds the lock that its
\* last counted failure set.
C33_Witness ==
    \E c \in Calls :
        /\ Returned(c, "login", "AccountLocked")
        /\ users[calls[c].uid].is_locked
        /\ users[calls[c].uid].failed_login_attempts = MAX_LOGIN_ATTEMPTS
        /\ users[calls[c].uid].locked_until =
              users[calls[c].uid].last_failed_login + LOCKOUT_DURATION_MINUTES
        /\ now < users[calls[c].uid].locked_until

C35_ValidLoginSucceeds ==
    [][\A c \in Calls :
          (/\ Returns(c, "login") /\ calls[c].pc = "verify"
           /\ verify_password(calls[c].pw, users[calls[c].uid].password_hash))
          => /\ calls'[c].res = "Success"
             /\ Len(sessions') = Len(sessions) + 1
             /\ \A i \in DOMAIN sessions :
                   sessions'[i].token # sessions'[Len(sessions')].token]_vars

\* C36: every session belongs to an account with email_verified = true, and
\* the sessions table grows only by one row at the commit of a login that
\* succeeds, whose password matched the hash that call read; no step of a
\* failed login or of another operation adds a session.
C36_SessionsFromLogin ==
    [][/\ \A i \in DOMAIN sessions' :
             /\ sessions'[i].user_id \in DOMAIN users'
             /\ users'[sessions'[i].user_id].email_verified
       /\ Len(sessions') >= Len(sessions)
       /\ Len(sessions') # Len(sessions)
          => /\ Len(sessions') = Len(sessions) + 1
             /\ \E c \in Calls :
                   /\ calls[c].op = "login" /\ calls[c].pc = "verify"
                   /\ verify_password(calls[c].pw, calls[c].w.password_hash)
                   /\ calls'[c].pc = "done" /\ calls'[c].res = "Success"
                   /\ sessions'[Len(sessions')].user_id = calls[c].uid
                   /\ sessions'[Len(sessions')].granted_on = calls[c].w.password_hash]_vars

\* A login has succeeded after a failure was counted and a reset changed the
\* password: the one session is the one its password check granted.
C36_Witness ==
    \E c \in Calls :
        /\ Returned(c, "login", "Success")
        /\ Len(sessions) = 1
        /\ sessions[1].user_id = calls[c].uid
        /\ verify_password(calls[c].pw, sessions[1].granted_on)
        /\ users[calls[c].uid].email_verified
        /\ users[calls[c].uid].last_failed_login # Null
        /\ \E t \in DOMAIN rtokens : rtokens[t].is_used

\* C37: overlapping calls: no step sets email_verified of an account or
\* is_used of a verification or reset token back to false, a new account
\* starts unverified, and email_verified becomes true only at the commit of a
\* verify_email that succeeds with a token of that account.
C37_Monotonic ==
    [][/\ Len(users') >= Len(users)
       /\ Len(vtokens') >= Len(vtokens)
       /\ Len(rtokens') >= Len(rtokens)
       /\ \A i \in DOMAIN users : users[i].email_verified => users'[i].email_verified
       /\ \A t \in DOMAIN vtokens : vtokens[t].is_used => vtokens'[t].is_used
       /\ \A t \in DOMAIN rtokens : rtokens[t].is_used => rtokens'[t].is_used
       /\ \A i \in DOMAIN users' :
             (users'[i].email_verified /\ (i \in DOMAIN users => ~users[i].email_verified))
             => \E c \in Calls :
                   /\ calls[c].op = "verify" /\ calls[c].pc = "commit"
                   /\ calls'[c].pc = "done" /\ calls'[c].res = "Success"
                   /\ i \in DOMAIN users
                   /\ vtokens[calls[c].tok].user_id = i]_vars

\* A verify_email and a reset_password of the same account have both
\* succeeded, each in its own slot: the account is verified and both tokens
\* are used after the later commit.
C37_Witness ==
    \E c, d \in Calls :
        /\ Returned(c, "verify", "Success")
        /\ Returned(d, "reset", "Success")
        /\ calls[c].uid = calls[d].uid
        /\ users[calls[c].uid].email_verified
        /\ vtokens[calls[c].tok].is_used
        /\ rtokens[calls[d].tok].is_used

\* C38: calls one after the other: the commit of a successful reset_password
\* marks the presented token used and leaves every other reset token as it
\* was, and reset_password accepts every token that is unused and not
\* expired, also after another token of the same account was used.
C38_OtherTokensStay ==
    [][\A c \in Calls :
          /\ (calls[c].op = "reset" /\ calls[c].pc = "commit" /\ calls'[c].pc = "done")
             => /\ rtokens'[calls[c].tok].is_used
                /\ rtokens'[calls[c].tok].used_at = calls[c].at
                /\ \A t \in DOMAIN rtokens : t # calls[c].tok => rtokens'[t] = rtokens[t]
                /\ DOMAIN rtokens' = DOMAIN rtokens
          /\ (/\ Starts(c, "reset") /\ calls'[c].tok \in DOMAIN rtokens
              /\ ~rtokens[calls'[c].tok].is_used
              /\ now <= rtokens[calls'[c].tok].expires_at
              /\ validate_strength(calls'[c].pw))
             => calls'[c].pc = "bulk"]_vars

\* The second reset token of the account has changed the password after the
\* first one did.
C38_Witness ==
    \E c \in Calls :
        /\ Returned(c, "reset", "Success") /\ calls[c].tok = 2
        /\ rtokens[1].is_used /\ rtokens[2].is_used
        /\ rtokens[1].user_id = rtokens[2].user_id
        /\ rtokens[1].used_at < rtokens[2].used_at
        /\ users[calls[c].uid].password_hash = calls[c].h

\* C39: overlapping calls on two accounts: a step of a login, verify_email or
\* reset_password call leaves the row, the verification tokens, the reset
\* tokens and the sessions of every account other than the call's own as
\* they were, and adds no row for another account.
C39_OtherAccountsUntouched ==
    [][\A c \in Calls :
          (calls'[c] # calls[c] /\ calls'[c].op \in {"login", "verify", "reset"})
          => /\ DOMAIN users' = DOMAIN users
             /\ \A b \in DOMAIN users :
                   b # calls'[c].uid
                   => /\ users'[b] = users[b]
                      /\ \A t \in DOMAIN vtokens :
                            vtokens[t].user_id = b => vtokens'[t] = vtokens[t]
                      /\ \A t \in DOMAIN rtokens :
                            rtokens[t].user_id = b => rtokens'[t] = rtokens[t]
                      /\ \A i \in DOMAIN sessions :
                            sessions[i].user_id = b => sessions'[i] = sessions[i]
                      /\ \A t \in DOMAIN vtokens' \ DOMAIN vtokens : vtokens'[t].user_id # b
                      /\ \A t \in DOMAIN rtokens' \ DOMAIN rtokens : rtokens'[t].user_id # b
                      /\ \A i \in DOMAIN sessions' \ DOMAIN sessions : sessions'[i].user_id # b]_vars

\* Account 1 was verified, locked by failed logins and had its password reset
\* while a call for account 2 was in flight; account 2 is verified and holds
\* an active session, an unused reset token and no counted failure.
C39_Witness ==
    \E c, d \in Calls :
        /\ Returned(c, "reset", "Success") /\ calls[c].uid = 1
        /\ users[1].email_verified /\ users[1].is_locked
        /\ users[1].failed_login_attempts = MAX_LOGIN_ATTEMPTS
        /\ ~Free(d) /\ calls[d].uid = 2
        /\ users[2].email_verified /\ ~users[2].is_locked
        /\ users[2].failed_login_attempts = 0
        /\ users[2].password_hash = hash_password(SecurePass, 2)
        /\ ~rtokens[2].is_used
        /\ \E i \in DOMAIN sessions : sessions[i].user_id = 2 /\ sessions[i].is_active

=============================================================================
